---------------------------- MODULE Spec2Model ----------------------------
(***************************************************************************)
(* A model of ly2mei (src/ly2mei/__main__.py): the pitch decoder           *)
(* do_pitch_class, the note block builder do_note_block, the measure       *)
(* assembler do_measure and the driver loop of the __main__ block.         *)
(*                                                                         *)
(* A Python string is a sequence of one-character strings: 'fis' is        *)
(* <<"f", "i", "s">>.  An lxml element is a record [tag, attrib, children] *)
(* whose attrib is a function from the names of the attributes that are    *)
(* set to their values, so that elem.get(k) is None exactly when k is not  *)
(* in DOMAIN attrib.  uuid.uuid4() is an allocator of fresh identifiers:   *)
(* the n-th call returns n.                                                *)
(***************************************************************************)
EXTENDS Integers, Sequences, FiniteSets, TLC

VARIABLES
    source,         \* the text read from the file
    pc,             \* where the driver is: "driver", "measure", "done", "failed", "idle"
    i,              \* the driver loop's enumerate() index
    measures,       \* the driver's list of measures
    k,              \* do_measure: how many tokens the for loop has consumed
    list_of_elems,  \* do_measure: list_of_elems
    slur_active,    \* do_measure: slur_active
    nextId,         \* how many identifiers uuid4() has handed out
    err,            \* the exception that ended the run, or NoExc
    mei_elem,       \* the document the driver builds at the end
    markup,         \* the argument of a direct call of a decoding function
    called,         \* which function was called directly with markup
    result          \* what that call returned or raised

vars == <<source, pc, i, measures, k, list_of_elems, slur_active, nextId,
          err, mei_elem, markup, called, result>>

driverVars == <<source, pc, i, measures, k, list_of_elems, slur_active,
                nextId, err, mei_elem>>

callVars == <<markup, called, result>>

-----------------------------------------------------------------------------
(* Bounds of the model.                                                    *)

\* The longest run of octave marks (commas, apostrophes) in a token that is
\* decoded by a direct call.
MaxMarks == 2

\* The number of words (see Words) a source text is made of.
MaxItems == 4

-----------------------------------------------------------------------------
(* Python values.                                                          *)

\* None where a string is expected.
None == "None"

\* None where an element is expected.
NoElem == [tag |-> "None"]

\* No exception.
NoExc == [type |-> "None"]

Exc(type, msg) == [type |-> type, msg |-> msg]

Returned(v) == [ok |-> TRUE, val |-> v]

Raised(e) == [ok |-> FALSE, exc |-> e]

\* str.isdigit() of one character.
Digits == {"0", "1", "2", "3", "4", "5", "6", "7", "8", "9"}

DigitChar(d) ==
    CASE d = 0 -> "0" [] d = 1 -> "1" [] d = 2 -> "2" [] d = 3 -> "3"
      [] d = 4 -> "4" [] d = 5 -> "5" [] d = 6 -> "6" [] d = 7 -> "7"
      [] d = 8 -> "8" [] d = 9 -> "9"

RECURSIVE NatStr(_)
NatStr(n) == IF n < 10 THEN <<DigitChar(n)>>
             ELSE NatStr(n \div 10) \o <<DigitChar(n % 10)>>

\* str(n) of an integer.
Str(n) == IF n < 0 THEN <<"-">> \o NatStr(-n) ELSE NatStr(n)

\* elem.get(key)
Has(elem, key) == key \in DOMAIN elem.attrib

\* here[:n], n a 0-based index.
Prefix(here, n) == SubSeq(here, 1, n)

\* c in s, for a one-character c.
In(c, s) == \E j \in 1..Len(s) : s[j] = c

-----------------------------------------------------------------------------
(* The module's tables.                                                    *)

_VALID_NOTE_LETTERS ==
    [l \in {"a", "b", "c", "d", "e", "f", "g", "r", "R", "s"} |->
        CASE l = "a" -> "A" [] l = "b" -> "B" [] l = "c" -> "C"
          [] l = "d" -> "D" [] l = "e" -> "E" [] l = "f" -> "F"
          [] l = "g" -> "G" [] l = "r" -> "rest" [] l = "R" -> "REST"
          [] l = "s" -> "space"]

_VALID_ACCIDENTALS ==
    [a \in {<<"i", "s">>, <<"e", "s">>, <<"i", "s", "i", "s">>,
            <<"e", "s", "e", "s">>} |->
        CASE a = <<"i", "s">> -> "s"
          [] a = <<"e", "s">> -> "f"
          [] a = <<"i", "s", "i", "s">> -> "ss"
          [] a = <<"e", "s", "e", "s">> -> "ff"]

_PITCH_CLASS_ERROR(m) == Exc("RuntimeError", <<"Cannot decode pitch class", m>>)

_SLUR_OPEN_WARNING(m) == Exc("RuntimeWarning", <<"Slur already open in", m>>)

PITCH_ENDERS == {",", "'", "1", "2", "4", "8", "!", "?"}

-----------------------------------------------------------------------------
(* find_lowest_of: the 0-based offset of the first character of here that  *)
(* is in these; the loop falls off its end, returning None, when there is  *)
(* none, and markup[:None] is then the whole of markup.                    *)

find_lowest_of(here, these) ==
    IF \E j \in 1..Len(here) : here[j] \in these
    THEN (CHOOSE j \in 1..Len(here) :
              /\ here[j] \in these
              /\ \A h \in 1..(j - 1) : here[h] \notin these) - 1
    ELSE Len(here)

-----------------------------------------------------------------------------
(* do_pitch_class                                                          *)

RECURSIVE do_pitch_class(_)
do_pitch_class(m) ==
    IF Len(m) = 1
    THEN IF m[1] \in DOMAIN _VALID_NOTE_LETTERS
         THEN Returned(<<_VALID_NOTE_LETTERS[m[1]], None>>)
         ELSE Raised(_PITCH_CLASS_ERROR(m))
    ELSE IF Len(m) = 0
         THEN Raised(Exc("IndexError", <<"string index out of range", m>>))
         ELSE LET first == do_pitch_class(<<m[1]>>)
                  accid == Tail(m)
              IN  IF ~first.ok
                  THEN first
                  ELSE LET letter == first.val[1]
                       IN  IF accid = <<"s">> /\ (letter = "a" \/ letter = "e")
                           THEN Returned(<<letter, "s">>)
                           ELSE IF accid \in DOMAIN _VALID_ACCIDENTALS
                                THEN Returned(<<letter, _VALID_ACCIDENTALS[accid]>>)
                                ELSE Raised(_PITCH_CLASS_ERROR(m))

-----------------------------------------------------------------------------
(* do_note_block                                                           *)

_XMLID == "xml:id"

Element(tag, attrib) == [tag |-> tag, attrib |-> attrib, children |-> <<>>]

\* The value of the local variable accid: None, a string, or an Element.
AccidNone == [kind |-> "None"]

AccidStr(v) == [kind |-> "str", val |-> v]

AccidElem(e) == [kind |-> "elem", val |-> e]

\* accid_ges if accid_ges is not None else 'n'
GesOrNatural(accid_ges) == IF accid_ges # None THEN accid_ges ELSE "n"

\* OctChar with the apostrophe lowering the octave as the comma does.
OctCharApostropheLowers(each_char, accid_ges, st) ==
    IF each_char = "," \/ each_char = "'"
    THEN [st EXCEPT !.octave = @ - 1]
    ELSE st

\* One character of the "figure out @oct and @accid" loop that is no digit.
OctChar(each_char, accid_ges, st) ==
    IF each_char = ","
    THEN [st EXCEPT !.octave = @ - 1]
    ELSE IF each_char = "'"
    THEN [st EXCEPT !.octave = @ + 1]
    ELSE IF each_char = "!"
    THEN [st EXCEPT !.accid = AccidStr(GesOrNatural(accid_ges))]
    ELSE IF each_char = "?"
    THEN [st EXCEPT !.accid =
              AccidElem(Element("accid", ("func" :> "caution")
                                         @@ ("accid" :> GesOrNatural(accid_ges))))]
    ELSE st

\* for i in range(1, len(markup)), from the 0-based index j on, with the
\* locals st = [octave, accid, stopped_at].
RECURSIVE OctLoop(_, _, _, _)
OctLoop(m, accid_ges, j, st) ==
    IF j >= Len(m)
    THEN st
    ELSE IF m[j + 1] \in Digits
         THEN [st EXCEPT !.stopped_at = j]
         ELSE OctLoop(m, accid_ges, j + 1, OctChar(m[j + 1], accid_ges, st))

\* for i in range(stopped_at, len(markup)), from the 0-based index j on.
RECURSIVE DurLoop(_, _, _)
DurLoop(m, j, dur) ==
    IF j >= Len(m)
    THEN dur
    ELSE IF m[j + 1] \in Digits
         THEN DurLoop(m, j + 1, dur \o <<m[j + 1]>>)
         ELSE dur

\* "figure out a slur"
SlurAttrib(m) ==
    IF In("(", m) THEN ("slur" :> "i1")
    ELSE IF In(")", m) THEN ("slur" :> "t1")
    ELSE <<>>

\* "set @accid.ges and @accid, as required" and the slur, on the new element.
\* isinstance(accid, basestring) is the Python 2 test for a string.
NoteElem(pname, accid_ges, st, dur, m, uid) ==
    LET base == ("pname" :> pname) @@ ("dur" :> dur)
                @@ ("oct" :> Str(st.octave)) @@ (_XMLID :> uid)
        ges  == IF accid_ges # None THEN ("accid.ges" :> accid_ges) ELSE <<>>
        acc  == IF st.accid.kind = "str" THEN ("accid" :> st.accid.val) ELSE <<>>
        kids == IF st.accid.kind = "elem" THEN <<st.accid.val>> ELSE <<>>
    IN  [tag |-> "note",
         attrib |-> base @@ ges @@ acc @@ SlurAttrib(m),
         children |-> kids]

\* do_note_block(markup), uid being what uuid.uuid4() returns in it.
do_note_block(m, uid) ==
    LET pc_res == do_pitch_class(Prefix(m, find_lowest_of(m, PITCH_ENDERS)))
    IN  IF ~pc_res.ok
        THEN pc_res
        ELSE LET pname     == pc_res.val[1]
                 accid_ges == pc_res.val[2]
                 st == OctLoop(m, accid_ges, 1,
                               [octave |-> 3, accid |-> AccidNone, stopped_at |-> 0])
                 dur == DurLoop(m, st.stopped_at, <<>>)
             IN  Returned(NoteElem(pname, accid_ges, st, dur, m, uid))

-----------------------------------------------------------------------------
(* str.split and str.strip                                                 *)

Whitespace == {" ", "\t", "\n"}

\* here.split(sep) for a one-character sep.
RECURSIVE SplitOn(_, _)
SplitOn(here, sep) ==
    LET n == find_lowest_of(here, {sep})
    IN  IF n = Len(here)
        THEN <<here>>
        ELSE <<Prefix(here, n)>> \o SplitOn(SubSeq(here, n + 2, Len(here)), sep)

\* here.split(): the maximal runs of characters that are not whitespace.
RECURSIVE SplitWs(_)
SplitWs(here) ==
    IF here = <<>>
    THEN <<>>
    ELSE IF here[1] \in Whitespace
         THEN SplitWs(Tail(here))
         ELSE LET n == find_lowest_of(here, Whitespace)
              IN  <<Prefix(here, n)>> \o SplitWs(SubSeq(here, n + 1, Len(here)))

\* here.strip()
RECURSIVE Strip(_)
Strip(here) ==
    IF here = <<>>
    THEN here
    ELSE IF here[1] \in Whitespace
         THEN Strip(Tail(here))
         ELSE IF here[Len(here)] \in Whitespace
              THEN Strip(Prefix(here, Len(here) - 1))
              ELSE here

-----------------------------------------------------------------------------
(* do_measure                                                              *)

\* The locals of do_measure and the identifier allocator, as one record.
Frame(loe, sa, nid, exc) ==
    [list_of_elems |-> loe, slur_active |-> sa, nextId |-> nid, exc |-> exc]

\* elem.get('slur') == v
SlurIs(elem, v) == Has(elem, "slur") /\ elem.attrib["slur"] = v

\* SlurStart without the test of slur_active: an open slur is replaced.
SlurStartOverwrites(m, elem, loe, sa, nid) ==
    Frame(loe,
          Element("slur", ("startid" :> elem.attrib[_XMLID]) @@ (_XMLID :> nid + 1)),
          nid + 1, NoExc)

\* The 'i1' branch of the loop body.
SlurStart(m, elem, loe, sa, nid) ==
    IF sa # NoElem
    THEN Frame(loe, sa, nid, _SLUR_OPEN_WARNING(Strip(m)))
    ELSE Frame(loe,
               Element("slur", ("startid" :> elem.attrib[_XMLID])
                               @@ (_XMLID :> nid + 1)),
               nid + 1, NoExc)

\* SlurEnd appending the slur without setting its endid.
SlurEndWithoutEndid(elem, loe, sa, nid) ==
    IF sa = NoElem
    THEN Frame(loe, sa, nid,
               Exc("AttributeError", <<"'NoneType' object has no attribute 'set'">>))
    ELSE Frame(Append(loe, sa), NoElem, nid, NoExc)

\* The 't1' branch of the loop body; slur_active.set on None raises.
SlurEnd(elem, loe, sa, nid) ==
    IF sa = NoElem
    THEN Frame(loe, sa, nid,
               Exc("AttributeError", <<"'NoneType' object has no attribute 'set'">>))
    ELSE Frame(Append(loe, [sa EXCEPT !.attrib =
                                ("endid" :> elem.attrib[_XMLID]) @@ @]),
               NoElem, nid, NoExc)

\* One pass of "for each_note in markup.split()" over each_note, m being the
\* measure's markup.
LoopBody(m, each_note, loe, sa, nid) ==
    LET r == do_note_block(each_note, nid + 1)
    IN  IF ~r.ok
        THEN Frame(loe, sa, nid, r.exc)
        ELSE LET elem == r.val
                 loe1 == Append(loe, elem)
             IN  IF SlurIs(elem, "i1")
                 THEN SlurStart(m, elem, loe1, sa, nid + 1)
                 ELSE IF SlurIs(elem, "t1")
                      THEN SlurEnd(elem, loe1, sa, nid + 1)
                      ELSE Frame(loe1, sa, nid + 1, NoExc)

\* What do_measure returns once the loop is over: None, or the measure that
\* wraps the staff that wraps the layer of list_of_elems.
MeasureElem(loe, nid) ==
    IF Len(loe) = 0
    THEN NoElem
    ELSE LET layer == [tag |-> "layer",
                       attrib |-> ("n" :> <<"1">>) @@ (_XMLID :> nid + 1),
                       children |-> loe]
             staff == [tag |-> "staff",
                       attrib |-> ("n" :> <<"1">>) @@ (_XMLID :> nid + 2),
                       children |-> <<layer>>]
         IN  [tag |-> "measure",
              attrib |-> (_XMLID :> nid + 3),
              children |-> <<staff>>]

-----------------------------------------------------------------------------
(* The driver                                                              *)

\* source.split('|')
Segments == SplitOn(source, "|")

\* markup.split() of the measure do_measure is working on.
Tokens == SplitWs(Segments[i + 1])

\* elem.set('n', str(i + 1)); measures.append(elem)
Numbered(ms, elem, idx) ==
    IF elem # NoElem
    THEN Append(ms, [elem EXCEPT !.attrib = ("n" :> Str(idx + 1)) @@ @])
    ELSE ms

\* section, score, body, music and mei around the measures.
Document(ms) ==
    LET section == [tag |-> "section", attrib |-> <<>>, children |-> ms]
        score   == [tag |-> "score", attrib |-> <<>>, children |-> <<section>>]
        body    == [tag |-> "body", attrib |-> <<>>, children |-> <<score>>]
        music   == [tag |-> "music", attrib |-> <<>>, children |-> <<body>>]
    IN  [tag |-> "mei", attrib |-> ("meiversion" :> <<"2", "0", "1", "3">>),
         children |-> <<music>>]

\* The words the source texts of the model are made of.
Words ==
    { <<"a", "4", "(", " ">>,
      <<"b", "'", "1", "6", " ">>,
      <<"c", ",", ",", "2", ")", " ">>,
      <<"c", " ">>,
      <<"x", "4", " ">>,
      <<" ">>,
      <<"|">> }

RECURSIVE Concat(_)
Concat(ws) == IF ws = <<>> THEN <<>> ELSE Head(ws) \o Concat(Tail(ws))

Sources == { Concat(ws) : ws \in UNION { [1..n -> Words] : n \in 0..MaxItems } }

Init ==
    /\ source \in Sources
    /\ pc = "driver"
    /\ i = 0
    /\ measures = <<>>
    /\ k = 0
    /\ list_of_elems = <<>>
    /\ slur_active = NoElem
    /\ nextId = 0
    /\ err = NoExc
    /\ mei_elem = NoElem
    /\ markup = <<>>
    /\ called = "none"
    /\ result = Raised(NoExc)

\* The driver calls do_measure(each_measure).
CallMeasure ==
    /\ pc = "driver"
    /\ i < Len(Segments)
    /\ pc' = "measure"
    /\ k' = 0
    /\ list_of_elems' = <<>>
    /\ slur_active' = NoElem
    /\ UNCHANGED <<source, i, measures, nextId, err, mei_elem, callVars>>

\* do_measure's loop takes the next token; an exception ends the program.
NoteStep ==
    /\ pc = "measure"
    /\ k < Len(Tokens)
    /\ LET f == LoopBody(Segments[i + 1], Tokens[k + 1], list_of_elems,
                         slur_active, nextId)
       IN  /\ list_of_elems' = f.list_of_elems
           /\ slur_active' = f.slur_active
           /\ nextId' = f.nextId
           /\ err' = f.exc
           /\ pc' = IF f.exc = NoExc THEN "measure" ELSE "failed"
    /\ k' = k + 1
    /\ UNCHANGED <<source, i, measures, mei_elem, callVars>>

\* do_measure returns and the driver numbers and keeps what it returned.
ReturnMeasure ==
    /\ pc = "measure"
    /\ k = Len(Tokens)
    /\ LET elem == MeasureElem(list_of_elems, nextId)
       IN  /\ measures' = Numbered(measures, elem, i)
           /\ nextId' = IF elem # NoElem THEN nextId + 3 ELSE nextId
    /\ i' = i + 1
    /\ pc' = "driver"
    /\ UNCHANGED <<source, k, list_of_elems, slur_active, err, mei_elem, callVars>>

\* The driver's loop is over: the document is built and written.
Finish ==
    /\ pc = "driver"
    /\ i = Len(Segments)
    /\ mei_elem' = Document(measures)
    /\ pc' = "done"
    /\ UNCHANGED <<source, i, measures, k, list_of_elems, slur_active, nextId,
                   err, callVars>>

Next == CallMeasure \/ NoteStep \/ ReturnMeasure \/ Finish

Spec == Init /\ [][Next]_vars

-----------------------------------------------------------------------------
(* Direct calls of the decoding functions: the argument is drawn from      *)
(* Markups and do_pitch_class or do_note_block is applied to it.           *)

NoteLetters == {"a", "b", "c", "d", "e", "f", "g"}

LetterParts == {<<>>} \cup { <<l>> : l \in NoteLetters \cup {"r", "s", "x"} }

SuffixParts == {<<>>, <<"i", "s">>, <<"e", "s">>, <<"i", "s", "i", "s">>,
                <<"e", "s", "e", "s">>, <<"s">>, <<"i">>}

OctaveParts == UNION { [1..n -> {",", "'"}] : n \in 0..MaxMarks }

AccidParts == {<<>>, <<"!">>, <<"?">>}

DurationParts == {<<>>, <<"1">>, <<"2">>, <<"4">>, <<"8">>, <<"1", "6">>,
                  <<"3", "2">>, <<"6", "4">>}

SlurParts == {<<>>, <<"(">>, <<")">>}

\* The non-empty strings made of one part of each kind, in this order.
Markups ==
    { l \o sfx \o oct \o acc \o d \o sl :
        l \in LetterParts, sfx \in SuffixParts, oct \in OctaveParts,
        acc \in AccidParts, d \in DurationParts, sl \in SlurParts } \ {<<>>}

InitNote ==
    /\ markup \in Markups
    /\ called = "none"
    /\ result = Raised(NoExc)
    /\ source = <<>>
    /\ pc = "idle"
    /\ i = 0
    /\ measures = <<>>
    /\ k = 0
    /\ list_of_elems = <<>>
    /\ slur_active = NoElem
    /\ nextId = 0
    /\ err = NoExc
    /\ mei_elem = NoElem

PitchClassCall ==
    /\ called = "none"
    /\ pc = "idle"
    /\ called' = "do_pitch_class"
    /\ result' = do_pitch_class(markup)
    /\ UNCHANGED <<markup, driverVars>>

NoteBlockCall ==
    /\ called = "none"
    /\ pc = "idle"
    /\ called' = "do_note_block"
    /\ result' = do_note_block(markup, 1)
    /\ UNCHANGED <<markup, driverVars>>

NextNote == PitchClassCall \/ NoteBlockCall

SpecNote == InitNote /\ [][NextNote]_vars

-----------------------------------------------------------------------------
(* Vocabulary of the properties.                                           *)

Upper(l) ==
    CASE l = "a" -> "A" [] l = "b" -> "B" [] l = "c" -> "C" [] l = "d" -> "D"
      [] l = "e" -> "E" [] l = "f" -> "F" [] l = "g" -> "G"

\* is->s, es->f, isis->ss, eses->ff
MappedAccidental(sfx) ==
    CASE sfx = <<"i", "s">> -> "s"
      [] sfx = <<"e", "s">> -> "f"
      [] sfx = <<"i", "s", "i", "s">> -> "ss"
      [] sfx = <<"e", "s", "e", "s">> -> "ff"

RegularSuffixes == {<<>>, <<"i", "s">>, <<"e", "s">>, <<"i", "s", "i", "s">>,
                    <<"e", "s", "e", "s">>}

Count(c, s) == Cardinality({ j \in 1..Len(s) : s[j] = c })

\* m is <letter a..g> sfx <commas and apostrophes> d
HasForm(m, sfx, d) ==
    /\ Len(m) >= 1 + Len(sfx) + Len(d)
    /\ m[1] \in NoteLetters
    /\ SubSeq(m, 2, 1 + Len(sfx)) = sfx
    /\ SubSeq(m, Len(m) - Len(d) + 1, Len(m)) = d
    /\ \A j \in (2 + Len(sfx))..(Len(m) - Len(d)) : m[j] \in {",", "'"}

\* The commas and apostrophes of such an m.
OctaveMarks(m, sfx, d) == SubSeq(m, 2 + Len(sfx), Len(m) - Len(d))

IsDigitString(s) == Len(s) > 0 /\ \A j \in 1..Len(s) : s[j] \in Digits

\* The pitch-class substring of a token: everything before its first
\* comma, apostrophe, digit, '!' or '?'.
PitchPart(m) == Prefix(m, find_lowest_of(m, {",", "'", "!", "?"} \cup Digits))

\* A single letter of the table, alone or followed by an accidental suffix
\* ("s" on a or e being the irregular spelling).
Recognised(p) ==
    /\ Len(p) >= 1
    /\ p[1] \in NoteLetters \cup {"r", "R", "s"}
    /\ \/ Tail(p) \in RegularSuffixes
       \/ Tail(p) = <<"s">> /\ p[1] \in {"a", "e"}

-----------------------------------------------------------------------------
(* Properties of the decoding functions, under SpecNote.                   *)

\* C1: for every token <letter a..g><'', is, es, isis or eses><commas and
\* apostrophes><1, 2, 4, 8 or 16>, do_note_block returns one note whose pname
\* is the uppercase letter, whose accid.ges is the mapped accidental (absent
\* for the empty suffix), whose oct is 3 minus the commas plus the
\* apostrophes, and whose dur is the duration digits.
C1_NoteDecoded ==
    called = "do_note_block" =>
        \A sfx \in RegularSuffixes :
            \A d \in {<<"1">>, <<"2">>, <<"4">>, <<"8">>, <<"1", "6">>} :
                HasForm(markup, sfx, d) =>
                    /\ result.ok
                    /\ result.val.tag = "note"
                    /\ result.val.attrib["pname"] = Upper(markup[1])
                    /\ result.val.attrib["dur"] = d
                    /\ result.val.attrib["oct"] =
                           Str(3 - Count(",", OctaveMarks(markup, sfx, d))
                                 + Count("'", OctaveMarks(markup, sfx, d)))
                    /\ IF sfx = <<>>
                       THEN ~Has(result.val, "accid.ges")
                       ELSE /\ Has(result.val, "accid.ges")
                            /\ result.val.attrib["accid.ges"] = MappedAccidental(sfx)

\* do_note_block has decoded "gisis,'16": G, double sharp, one comma and one
\* apostrophe, sixteenth.
C1_Witness ==
    /\ called = "do_note_block"
    /\ markup = <<"g", "i", "s", "i", "s", ",", "'", "1", "6">>
    /\ result.ok
    /\ result.val.attrib["accid.ges"] = "ss"
    /\ result.val.attrib["oct"] = <<"3">>
    /\ result.val.attrib["dur"] = <<"1", "6">>

\* C2: do_pitch_class("es") returns (E, flat) and do_pitch_class("as")
\* returns (A, sharp); neither call fails.
C2_ShortSpellings ==
    called = "do_pitch_class" =>
        /\ markup = <<"e", "s">> => result = Returned(<<"E", "f">>)
        /\ markup = <<"a", "s">> => result = Returned(<<"A", "s">>)

\* C3: every note that do_note_block returns has a dur that is a non-empty
\* string of digits (a token with no duration digits is an error and yields
\* no note).
C3_DurationNotEmpty ==
    (called = "do_note_block" /\ result.ok) =>
        IsDigitString(result.val.attrib["dur"])

\* C4: for every letter a..g and every duration d of 1, 2, 4, 8, 16, 32, 64,
\* do_note_block(letter + d) returns a note with that pname and dur = d.
C4_WhitelistedDurations ==
    called = "do_note_block" =>
        \A d \in DurationParts \ {<<>>} :
            (Len(markup) = 1 + Len(d) /\ HasForm(markup, <<>>, d)) =>
                /\ result.ok
                /\ result.val.attrib["pname"] = Upper(markup[1])
                /\ result.val.attrib["dur"] = d

\* C5: whenever the pitch-class substring of a token (everything before the
\* first pitch terminator, the empty substring included) is not a recognised
\* letter with an optional recognised suffix, do_note_block returns no note
\* and fails with the pitch-class error.
C5_PitchClassError ==
    (called = "do_note_block" /\ ~Recognised(PitchPart(markup))) =>
        /\ ~result.ok
        /\ result.exc.type = "RuntimeError"
        /\ result.exc.msg[1] = "Cannot decode pitch class"

-----------------------------------------------------------------------------
(* Properties of do_measure and the driver, under Spec.                    *)

IsNote(e) == e.tag = "note"

IsSlur(e) == e.tag = "slur"

\* The element sequence of a measure: the children of its staff's layer.
Layer(measure) == measure.children[1].children[1].children

\* How many elements of L satisfy elem.get('slur') == v.
SlurTagged(L, v) == Cardinality({ p \in 1..Len(L) : SlurIs(L[p], v) })

\* The position in L of the note whose identifier is id.
NoteAt(L, id) == CHOOSE p \in 1..Len(L) : IsNote(L[p]) /\ L[p].attrib[_XMLID] = id

\* The identifiers of the notes of L from the one with identifier a through
\* the one with identifier b.
NotesThrough(L, a, b) ==
    LET from == NoteAt(L, a)
        to   == NoteAt(L, b)
        part == SelectSeq(SubSeq(L, from, to), IsNote)
    IN  [q \in 1..Len(part) |-> part[q].attrib[_XMLID]]

\* The token decodes to a note that starts a slur.
IsSlurStart(tok) == do_note_block(tok, 0).ok /\ In("(", tok)

\* C6: in every measure that do_measure returns, the notes tagged slur-start
\* are as many as the notes tagged slur-end.
C6_SlursBalanced ==
    \A j \in 1..Len(measures) :
        SlurTagged(Layer(measures[j]), "i1") = SlurTagged(Layer(measures[j]), "t1")

\* C7: every slur element of a measure carries a participant list: the
\* identifiers of all notes from its start note through its end note.
C7_SlurHasParticipants ==
    \A j \in 1..Len(measures) :
        \A p \in 1..Len(Layer(measures[j])) :
            LET L == Layer(measures[j])
            IN  IsSlur(L[p]) =>
                    /\ Has(L[p], "plist")
                    /\ L[p].attrib["plist"] =
                           NotesThrough(L, L[p].attrib["startid"], L[p].attrib["endid"])

\* C8: while do_measure works on a measure, a slur is open exactly when the
\* slur-start notes outnumber the slurs emitted, by one; a slur-start token
\* met while a slur is open ends the run with the slur-open error, the open
\* slur is not replaced, and no measure is returned then or later.
C8_NoSecondSlur ==
    /\ [](pc = "measure" =>
            SlurTagged(list_of_elems, "i1")
                - Cardinality({ p \in 1..Len(list_of_elems) : IsSlur(list_of_elems[p]) })
              = IF slur_active = NoElem THEN 0 ELSE 1)
    /\ [][(/\ pc = "measure"
           /\ k < Len(Tokens)
           /\ slur_active # NoElem
           /\ IsSlurStart(Tokens[k + 1]))
          => (/\ pc' = "failed"
              /\ err' = _SLUR_OPEN_WARNING(Strip(Segments[i + 1]))
              /\ slur_active' = slur_active
              /\ measures' = measures)]_vars
    /\ [][pc = "failed" => (pc' = "failed" /\ measures' = measures)]_vars

\* A second slur-start token has ended the run.
C8_Witness ==
    /\ pc = "failed"
    /\ err.type = "RuntimeWarning"
    /\ slur_active # NoElem
    /\ SlurTagged(list_of_elems, "i1") = 2

\* C9: when the driver is done, it has emitted one measure for each segment
\* with at least one token and none for the others, numbered 1, 2, ..., k in
\* order with no gaps.
C9_NumberedWithoutGaps ==
    pc = "done" =>
        /\ Len(measures) =
               Cardinality({ j \in 1..Len(Segments) : SplitWs(Segments[j]) # <<>> })
        /\ \A j \in 1..Len(measures) : measures[j].attrib["n"] = Str(j)

\* The notes of L are the tokens toks decoded, in order; every slur of L has
\* its startid and endid, sits right after the note its endid names, and its
\* startid names an earlier note tagged slur-start.
WellFormedLayer(L, toks) ==
    /\ LET notes == SelectSeq(L, IsNote)
       IN  /\ Len(notes) = Len(toks)
           /\ \A j \in 1..Len(toks) :
                  notes[j] = do_note_block(toks[j], notes[j].attrib[_XMLID]).val
    /\ \A p \in 1..Len(L) :
           IsSlur(L[p]) =>
               /\ Has(L[p], "startid")
               /\ Has(L[p], "endid")
               /\ p > 1
               /\ IsNote(L[p - 1])
               /\ L[p - 1].attrib[_XMLID] = L[p].attrib["endid"]
               /\ \E q \in 1..(p - 2) :
                      /\ IsNote(L[q])
                      /\ L[q].attrib[_XMLID] = L[p].attrib["startid"]
                      /\ SlurIs(L[q], "i1")

=============================================================================
